---- MODULE Spec2Model ----
(***************************************************************************)
(* The convenience accessors of handy.go (GetString .. Exists, Parse,      *)
(* MustParse, ParseBytes, MustParseBytes) over the shared parser pool      *)
(* handyPool.  Every accessor call is a sequence of steps of one caller    *)
(* (goroutine): Get, ParseBytes, coercion, copy, Put, return.  The parser, *)
(* the pool and the Value methods live outside handy.go; they are modelled *)
(* from their contract: a parser copies its input into its own buffer      *)
(* (keeping the buffer's storage between parses) and a parsed document's   *)
(* text nodes are views (offset, length) into that buffer.                 *)
(***************************************************************************)
EXTENDS Integers, Sequences, FiniteSets, TLC

(* ------------------------------ bounds --------------------------------- *)
NumCallers == 2
MaxCalls == 2

Callers == 1..NumCallers

(* ------------------------------ inputs --------------------------------- *)
\* The byte texts handed to the accessors, one character per element.
\*   d1   {"h":"1f","e":"","s":"hi","a":{"b":42},"arr":[10,20],"t":true}
\*   d2   {"h":"2a","s":"yo","a":7}
\*   d3   {"n":null,"1":5}
\*   bad  not json
\*   bad2 {}x
Text(d) ==
  CASE d = "d1" -> << "{","\"","h","\"",":","\"","1","f","\"",",",
                      "\"","e","\"",":","\"","\"",",",
                      "\"","s","\"",":","\"","h","i","\"",",",
                      "\"","a","\"",":","{","\"","b","\"",":","4","2","}",",",
                      "\"","a","r","r","\"",":","[","1","0",",","2","0","]",",",
                      "\"","t","\"",":","t","r","u","e","}" >>
    [] d = "d2" -> << "{","\"","h","\"",":","\"","2","a","\"",",",
                      "\"","s","\"",":","\"","y","o","\"",",",
                      "\"","a","\"",":","7","}" >>
    [] d = "d3" -> << "{","\"","n","\"",":","n","u","l","l",",",
                      "\"","1","\"",":","5","}" >>
    [] d = "bad" -> << "n","o","t"," ","j","s","o","n" >>
    [] d = "bad2" -> << "{","}","x" >>

AllData == {"d1", "d2", "d3", "bad", "bad2"}

\* Nodes of a parsed document.  Text and number nodes are spans of the
\* parser's buffer: off is the 0-based offset of the first byte.
StrNode(off, len) == [t |-> "string", off |-> off, len |-> len]
NumNode(off, len) == [t |-> "number", off |-> off, len |-> len]
ObjNode(kv) == [t |-> "object", kv |-> kv]
ArrNode(a) == [t |-> "array", a |-> a]
TrueNode == [t |-> "true"]
NullNode == [t |-> "null"]
Absent == [t |-> "absent"]
NoDoc == [t |-> "nodoc"]

NoErr == "nil"

\* Parser.ParseBytes on a text: the tree it builds, or the parse error.
EngineParse(d) ==
  CASE d = "d1" ->
         [err |-> NoErr,
          v |-> ObjNode([h |-> StrNode(6, 2), e |-> StrNode(15, 0),
                         s |-> StrNode(22, 2),
                         a |-> ObjNode([b |-> NumNode(35, 2)]),
                         arr |-> ArrNode(<<NumNode(46, 2), NumNode(49, 2)>>),
                         t |-> TrueNode])]
    [] d = "d2" ->
         [err |-> NoErr,
          v |-> ObjNode([h |-> StrNode(6, 2), s |-> StrNode(15, 2),
                         a |-> NumNode(23, 1)])]
    [] d = "d3" ->
         [err |-> NoErr,
          v |-> ObjNode(("n" :> NullNode) @@ ("1" :> NumNode(14, 1)))]
    [] d = "bad" -> [err |-> "unexpected value", v |-> NoDoc]
    [] d = "bad2" -> [err |-> "unexpected tail", v |-> NoDoc]

Malformed(d) == EngineParse(d).err # NoErr

\* The parser keeps its buffer's storage: b = append(b[:0], data...)
\* overwrites the first Len(data) bytes and leaves the rest of the storage.
Refill(b, txt) ==
  [i \in 1..(IF Len(b) > Len(txt) THEN Len(b) ELSE Len(txt)) |->
     IF i <= Len(txt) THEN txt[i] ELSE b[i]]

Bytes(b, off, len) == SubSeq(b, off + 1, off + len)

(* ------------------------------ paths ---------------------------------- *)
DecimalIndex == ("0" :> 0) @@ ("1" :> 1) @@ ("2" :> 2)

RECURSIVE GetDigitsOnlyIndex(_, _)
\* Get with a segment of decimal digits never used as an object key.
GetDigitsOnlyIndex(v, ks) ==
  IF ks = <<>> THEN v
  ELSE LET k == Head(ks) IN
    CASE v.t = "object" ->
           IF k \in DOMAIN v.kv /\ k \notin DOMAIN DecimalIndex
             THEN GetDigitsOnlyIndex(v.kv[k], Tail(ks)) ELSE Absent
      [] v.t = "array" ->
           IF k \in DOMAIN DecimalIndex /\ DecimalIndex[k] < Len(v.a)
             THEN GetDigitsOnlyIndex(v.a[DecimalIndex[k] + 1], Tail(ks))
             ELSE Absent
      [] OTHER -> Absent

RECURSIVE Get(_, _)
\* Value.Get: resolve keys segment by segment from v.
Get(v, ks) ==
  IF ks = <<>> THEN v
  ELSE LET k == Head(ks) IN
    CASE v.t = "object" ->
           IF k \in DOMAIN v.kv THEN Get(v.kv[k], Tail(ks)) ELSE Absent
      [] v.t = "array" ->
           IF k \in DOMAIN DecimalIndex /\ DecimalIndex[k] < Len(v.a)
             THEN Get(v.a[DecimalIndex[k] + 1], Tail(ks))
             ELSE Absent
      [] OTHER -> Absent

AllPaths == { <<>>, <<"h">>, <<"e">>, <<"s">>, <<"a">>, <<"a", "b">>,
              <<"a", "x">>, <<"arr", "1">>, <<"arr", "2">>, <<"t">>, <<"zz">> }

\* <<data, keys>> pairs the callers draw from: every path on d1, the paths
\* "h", "a" and "zz" on d2 and the malformed texts, and on d3 the paths to
\* the null, to the key "1", through the null and through the number.
AllInputs ==
  {<<"d1", ks>> : ks \in AllPaths}
    \cup {<<d, ks>> : d \in {"d2", "bad", "bad2"}, ks \in {<<"h">>, <<"a">>, <<"zz">>}}
    \cup {<<"d3", ks>> : ks \in {<<>>, <<"n">>, <<"1">>, <<"n", "0">>, <<"1", "0">>}}

\* The inputs of the concurrent callers.
ConcInputs == {<<"d1", <<"h">>>>, <<"d2", <<"h">>>>, <<"bad", <<"h">>>>}

(* ------------------------------ values --------------------------------- *)
\* What a caller can hold.  A view is a string or byte slice whose bytes are
\* the parser's buffer (backing parser p, offset, length); the others own
\* their contents.
Str(s) == [k |-> "string", s |-> s]
ByteVal(s) == [k |-> "bytes", s |-> s]
NilBytes == [k |-> "nilbytes"]
View(as, p, off, len) == [k |-> "view", as |-> as, p |-> p, off |-> off, len |-> len]
IntVal(n) == [k |-> "int", n |-> n]
BigVal(n) == [k |-> "big", n |-> n]
FloatVal(n) == [k |-> "float", n |-> n]
BoolVal(b) == [k |-> "bool", b |-> b]
DocVal(v, b) == [k |-> "doc", v |-> v, b |-> b]
NilDoc == [k |-> "nildoc"]
None == [k |-> "none"]

Accessors == {"GetString", "GetBytes", "GetInt", "GetHex", "GetBigint",
              "GetFloat64", "GetBool", "Exists"}
\* The accessors of the concurrent callers: the three that return text or
\* bytes (copy to a string, copy to bytes, text returned as coerced).
ConcAccessors == {"GetString", "GetBytes", "GetHex"}
\* The inputs each of them is called on: the hex text of d1 by all three, a
\* malformed text through GetString, a second document through GetHex.
ConcInputsOf(a) ==
  CASE a = "GetString" -> ConcInputs \ {<<"d2", <<"h">>>>}
    [] a = "GetBytes" -> {<<"d1", <<"h">>>>}
    [] OTHER -> ConcInputs \ {<<"bad", <<"h">>>>}
OneShots == {"Parse", "ParseBytes", "MustParse", "MustParseBytes"}

(* ------------------- the document engine's coercions ------------------- *)
DigitVal == ("0" :> 0) @@ ("1" :> 1) @@ ("2" :> 2) @@ ("3" :> 3) @@ ("4" :> 4)
            @@ ("5" :> 5) @@ ("6" :> 6) @@ ("7" :> 7) @@ ("8" :> 8) @@ ("9" :> 9)
HexDigits == DOMAIN DigitVal \cup {"a", "b", "c", "d", "e", "f"}

RECURSIVE ParseDec(_)
\* Decimal text to number; 0 when the text is no number.
ParseDec(s) ==
  IF s = <<>> THEN 0
  ELSE IF \E i \in 1..Len(s) : s[i] \notin DOMAIN DigitVal THEN 0
  ELSE ParseDec(SubSeq(s, 1, Len(s) - 1)) * 10 + DigitVal[s[Len(s)]]

IsHexText(s) == s # <<>> /\ \A i \in 1..Len(s) : s[i] \in HexDigits

\* Value.GetStringBytes: the bytes of a string node, as a view of p's buffer.
ValueGetStringBytes(tr, p, ks) ==
  LET n == Get(tr, ks) IN
    IF n.t = "string" THEN View("bytes", p, n.off, n.len) ELSE NilBytes

\* Value.GetInt
ValueGetInt(tr, b, ks) ==
  LET n == Get(tr, ks) IN
    IF n.t = "number" THEN IntVal(ParseDec(Bytes(b, n.off, n.len))) ELSE IntVal(0)

\* Value.GetHex: the hex text of a node, as a view of p's buffer.
ValueGetHex(tr, b, p, ks) ==
  LET n == Get(tr, ks) IN
    IF n.t = "string" /\ IsHexText(Bytes(b, n.off, n.len))
      THEN View("string", p, n.off, n.len) ELSE Str(<<>>)

\* Value.GetBigint
ValueGetBigint(tr, b, ks) ==
  LET n == Get(tr, ks) IN
    IF n.t = "number" THEN BigVal(ParseDec(Bytes(b, n.off, n.len))) ELSE BigVal(0)

\* Value.GetFloat64
ValueGetFloat64(tr, b, ks) ==
  LET n == Get(tr, ks) IN
    IF n.t = "number" THEN FloatVal(ParseDec(Bytes(b, n.off, n.len))) ELSE FloatVal(0)

\* Value.GetBool
ValueGetBool(tr, ks) == BoolVal(Get(tr, ks).t = "true")

\* Value.Exists
ValueExists(tr, ks) == BoolVal(Get(tr, ks) # Absent)

(* ---------------------------- handy.go --------------------------------- *)
VARIABLES
  idle,    \* handyPool: the parsers that are idle in the pool
  made,    \* parsers constructed so far (pooled and private); they are 1..made
  buf,     \* buf[q]: the buffer of parser q
  tree,    \* tree[q]: the document parser q built last
  pc,      \* pc[c]: the step caller c is at
  cur,     \* cur[c]: the call in flight, [acc, data, keys]
  p,       \* p[c]: the local p of the accessor, 0 before Get
  res,     \* res[c]: the local sb / str / b / n / f / ok
  gets,    \* gets[c]: parsers this call took with handyPool.Get
  puts,    \* puts[c]: parsers this call gave to handyPool.Put
  held,    \* held[c]: what the last finished call of c returned
  ncalls,  \* calls started
  priv,    \* the parsers declared by the one-shot functions (var p Parser)
  docp,    \* docp[c]: the parser behind the document c's last one-shot returned
  peak     \* the most accessor calls that were in flight at once

vars == <<idle, made, buf, tree, pc, cur, p, res, gets, puts, held, ncalls,
          priv, docp, peak>>

\* The contents a value shows to whoever reads it while the parsers'
\* buffers are bs.
ObserveIn(bs, x) ==
  IF x.k = "view"
    THEN IF x.as = "string" THEN Str(Bytes(bs[x.p], x.off, x.len))
                            ELSE ByteVal(Bytes(bs[x.p], x.off, x.len))
    ELSE x

Observe(x) == ObserveIn(buf, x)

\* ErrDefault with GetBytes returning an empty buffer instead of nil.
ErrDefaultEmptyBytes(a) ==
  CASE a = "GetString" -> Str(<<>>)
    [] a = "GetBytes" -> ByteVal(<<>>)
    [] a = "GetInt" -> IntVal(0)
    [] a = "GetHex" -> Str(<<>>)
    [] a = "GetBigint" -> BigVal(0)
    [] a = "GetFloat64" -> FloatVal(0)
    [] a = "GetBool" -> BoolVal(FALSE)
    [] a = "Exists" -> BoolVal(FALSE)

\* The value each accessor returns from its `if err != nil` branch.
ErrDefault(a) ==
  CASE a = "GetString" -> Str(<<>>)
    [] a = "GetBytes" -> NilBytes
    [] a = "GetInt" -> IntVal(0)
    [] a = "GetHex" -> Str(<<>>)
    [] a = "GetBigint" -> BigVal(0)
    [] a = "GetFloat64" -> FloatVal(0)
    [] a = "GetBool" -> BoolVal(FALSE)
    [] a = "Exists" -> BoolVal(FALSE)

\* NextStep with the error branch returning without handyPool.Put(p).
NextStepNoPutOnError(a, s, failed) ==
  CASE s = "get" -> "parse"
    [] s = "parse" -> IF failed THEN "reterr" ELSE "coerce"
    [] s = "coerce" -> IF a \in {"GetString", "GetBytes"} THEN "copy" ELSE "put"
    [] s = "copy" -> "put"
    [] s = "puterr" -> "reterr"
    [] s = "put" -> "ret"
    [] OTHER -> "idle"

\* NextStep with handyPool.Put(p) moved up, before the coercion.
NextStepPutBeforeCoerce(a, s, failed) ==
  CASE s = "get" -> "parse"
    [] s = "parse" -> IF failed THEN "puterr" ELSE "put"
    [] s = "put" -> "coerce"
    [] s = "coerce" -> IF a \in {"GetString", "GetBytes"} THEN "copy" ELSE "ret"
    [] s = "copy" -> "ret"
    [] s = "puterr" -> "reterr"
    [] OTHER -> "idle"

\* NextStep with the return missing from the error branch, which then falls
\* through to the second handyPool.Put(p).
NextStepDoublePut(a, s, failed) ==
  CASE s = "get" -> "parse"
    [] s = "parse" -> IF failed THEN "puterr" ELSE "coerce"
    [] s = "coerce" -> IF a \in {"GetString", "GetBytes"} THEN "copy" ELSE "put"
    [] s = "copy" -> "put"
    [] s = "puterr" -> "put"
    [] s = "put" -> "ret"
    [] OTHER -> "idle"

\* NextStep with ParseBytes tried again for as long as it fails.
NextStepRetryParse(a, s, failed) ==
  CASE s = "get" -> "parse"
    [] s = "parse" -> IF failed THEN "parse" ELSE "coerce"
    [] s = "coerce" -> IF a \in {"GetString", "GetBytes"} THEN "copy" ELSE "put"
    [] s = "copy" -> "put"
    [] s = "puterr" -> "reterr"
    [] s = "put" -> "ret"
    [] OTHER -> "idle"

\* The order of an accessor's statements: Get, ParseBytes, then either the
\* error branch (Put, return) or coercion, copy (GetString, GetBytes), Put,
\* return.
NextStep(a, s, failed) ==
  CASE s = "get" -> "parse"
    [] s = "parse" -> IF failed THEN "puterr" ELSE "coerce"
    [] s = "coerce" -> IF a \in {"GetString", "GetBytes"} THEN "copy" ELSE "put"
    [] s = "copy" -> "put"
    [] s = "puterr" -> "reterr"
    [] s = "put" -> "ret"
    [] OTHER -> "idle"

\* Coerce with Exists calling v.GetBool(keys...) instead of v.Exists(keys...).
CoerceExistsAsGetBool(a, tr, b, q, ks) ==
  CASE a \in {"GetString", "GetBytes"} -> ValueGetStringBytes(tr, q, ks)
    [] a = "GetInt" -> ValueGetInt(tr, b, ks)
    [] a = "GetHex" -> ValueGetHex(tr, b, q, ks)
    [] a = "GetBigint" -> ValueGetBigint(tr, b, ks)
    [] a = "GetFloat64" -> ValueGetFloat64(tr, b, ks)
    [] a = "GetBool" -> ValueGetBool(tr, ks)
    [] a = "Exists" -> ValueGetBool(tr, ks)

\* The v.GetXxx(keys...) call of accessor a, v being the document tr of
\* parser q, whose buffer is b.
Coerce(a, tr, b, q, ks) ==
  CASE a \in {"GetString", "GetBytes"} -> ValueGetStringBytes(tr, q, ks)
    [] a = "GetInt" -> ValueGetInt(tr, b, ks)
    [] a = "GetHex" -> ValueGetHex(tr, b, q, ks)
    [] a = "GetBigint" -> ValueGetBigint(tr, b, ks)
    [] a = "GetFloat64" -> ValueGetFloat64(tr, b, ks)
    [] a = "GetBool" -> ValueGetBool(tr, ks)
    [] a = "Exists" -> ValueExists(tr, ks)

\* append(b, sb...) on a nil b: nothing to append leaves b nil.
GoAppendToNil(bytes) == IF bytes = <<>> THEN NilBytes ELSE ByteVal(bytes)

\* CopyOut with GetBytes copying without the nil check, into a fresh buffer.
CopyOutNoNilCheck(a, sb, bs) ==
  IF a = "GetString"
    THEN IF sb = NilBytes THEN Str(<<>>) ELSE Str(ObserveIn(bs, sb).s)
    ELSE IF sb = NilBytes THEN ByteVal(<<>>) ELSE ByteVal(ObserveIn(bs, sb).s)

\* CopyOut with the nil check of GetBytes inverted: if sb == nil { ... }.
CopyOutInvertedNilCheck(a, sb, bs) ==
  IF a = "GetString"
    THEN IF sb = NilBytes THEN Str(<<>>) ELSE Str(ObserveIn(bs, sb).s)
    ELSE IF sb = NilBytes THEN GoAppendToNil(<<>>) ELSE NilBytes

\* GetString: str := string(sb).  GetBytes: var b; if sb != nil { b = append(b, sb...) }
CopyOut(a, sb, bs) ==
  IF a = "GetString"
    THEN IF sb = NilBytes THEN Str(<<>>) ELSE Str(ObserveIn(bs, sb).s)
    ELSE IF sb = NilBytes THEN NilBytes ELSE GoAppendToNil(ObserveIn(bs, sb).s)

\* An accessor call is in flight from its start to its return.
InFlight(c) == pc[c] \notin {"idle", "off"}

\* a caller starts an accessor call on one of the inputs `ins`
Start(c, accs, ins) ==
  /\ pc[c] = "idle"
  /\ ncalls < MaxCalls
  /\ \E a \in accs, in \in ins :
       cur' = [cur EXCEPT ![c] = [acc |-> a, data |-> in[1], keys |-> in[2]]]
  /\ pc' = [pc EXCEPT ![c] = "get"]
  /\ gets' = [gets EXCEPT ![c] = <<>>]
  /\ puts' = [puts EXCEPT ![c] = <<>>]
  /\ ncalls' = ncalls + 1
  /\ peak' = LET n == Cardinality({x \in Callers : InFlight(x)}) + 1
             IN IF n > peak THEN n ELSE peak
  /\ UNCHANGED <<idle, made, buf, tree, p, res, held, priv, docp>>

Call(c) == \E a \in ConcAccessors : Start(c, {a}, ConcInputsOf(a))

CallAny(c) == Start(c, Accessors, AllInputs)

\* ParserPool.Get hands out an idle parser when there is one, else a new one.
ParserPoolReuses(q) == q \in idle
ParserPoolMakes == idle = {}

\* ParserPool.Put: the parser is idle again.
ParserPoolPut(q) == idle \cup {q}

\* p := handyPool.Get()
PoolGet(c) ==
  /\ pc[c] = "get"
  /\ \/ \E q \in 1..made :
          /\ ParserPoolReuses(q)
          /\ idle' = idle \ {q}
          /\ p' = [p EXCEPT ![c] = q]
          /\ gets' = [gets EXCEPT ![c] = Append(@, q)]
          /\ UNCHANGED <<made, buf, tree>>
     \/ /\ ParserPoolMakes
        /\ made' = made + 1
        /\ buf' = buf @@ ((made + 1) :> <<>>)
        /\ tree' = tree @@ ((made + 1) :> NoDoc)
        /\ p' = [p EXCEPT ![c] = made + 1]
        /\ gets' = [gets EXCEPT ![c] = Append(@, made + 1)]
        /\ UNCHANGED idle
  /\ pc' = [pc EXCEPT ![c] = NextStep(cur[c].acc, "get", FALSE)]
  /\ UNCHANGED <<cur, res, puts, held, ncalls, priv, docp, peak>>

\* v, err := p.ParseBytes(data)
ParseBytesStep(c) ==
  /\ pc[c] = "parse"
  /\ LET r == EngineParse(cur[c].data) IN
       /\ buf' = [buf EXCEPT ![p[c]] = Refill(@, Text(cur[c].data))]
       /\ tree' = [tree EXCEPT ![p[c]] = r.v]
       /\ pc' = [pc EXCEPT ![c] = NextStep(cur[c].acc, "parse", r.err # NoErr)]
  /\ UNCHANGED <<idle, made, cur, p, res, gets, puts, held, ncalls, priv, docp, peak>>

\* sb := v.GetStringBytes(keys...), n := v.GetInt(keys...), ...
CoerceStep(c) ==
  /\ pc[c] = "coerce"
  /\ res' = [res EXCEPT ![c] = Coerce(cur[c].acc, tree[p[c]], buf[p[c]], p[c], cur[c].keys)]
  /\ pc' = [pc EXCEPT ![c] = NextStep(cur[c].acc, "coerce", FALSE)]
  /\ UNCHANGED <<idle, made, buf, tree, cur, p, gets, puts, held, ncalls,
                 priv, docp, peak>>

\* the copy of sb into caller-owned storage
CopyStep(c) ==
  /\ pc[c] = "copy"
  /\ res' = [res EXCEPT ![c] = CopyOut(cur[c].acc, res[c], buf)]
  /\ pc' = [pc EXCEPT ![c] = NextStep(cur[c].acc, "copy", FALSE)]
  /\ UNCHANGED <<idle, made, buf, tree, cur, p, gets, puts, held, ncalls,
                 priv, docp, peak>>

\* handyPool.Put(p), on the error branch and on the normal one
PoolPut(c) ==
  /\ pc[c] \in {"put", "puterr"}
  /\ idle' = ParserPoolPut(p[c])
  /\ puts' = [puts EXCEPT ![c] = Append(@, p[c])]
  /\ pc' = [pc EXCEPT ![c] = NextStep(cur[c].acc, pc[c], FALSE)]
  /\ UNCHANGED <<made, buf, tree, cur, p, res, gets, held, ncalls, priv, docp, peak>>

\* return: the caller now holds the value
Return(c) ==
  /\ pc[c] \in {"ret", "reterr"}
  /\ LET x == IF pc[c] = "reterr" THEN ErrDefault(cur[c].acc) ELSE res[c] IN
       held' = [held EXCEPT ![c] = [acc |-> cur[c].acc, data |-> cur[c].data,
                                    keys |-> cur[c].keys, val |-> x,
                                    at |-> Observe(x)]]
  /\ pc' = [pc EXCEPT ![c] = NextStep(cur[c].acc, pc[c], FALSE)]
  /\ p' = [p EXCEPT ![c] = 0]
  /\ res' = [res EXCEPT ![c] = None]
  /\ cur' = [cur EXCEPT ![c] = None]
  /\ UNCHANGED <<idle, made, buf, tree, gets, puts, ncalls, priv, docp, peak>>

\* Parse(s) / ParseBytes(b): var p Parser; return p.Parse(s).  The result
\* pair (v, err); a document carries its private parser's buffer.
Parse(d) ==
  LET r == EngineParse(d) IN
    IF r.err = NoErr THEN [v |-> DocVal(r.v, Text(d)), err |-> NoErr]
                     ELSE [v |-> NilDoc, err |-> r.err]

ParseBytes(d) == Parse(d)

\* MustParse returning the nil document instead of panicking.
MustParseSwallowsError(d) ==
  LET r == Parse(d) IN [k |-> "return", v |-> r.v]

\* MustParse(s): v, err := Parse(s); if err != nil { panic(err) }; return v
MustParse(d) ==
  LET r == Parse(d) IN
    IF r.err # NoErr THEN [k |-> "panic", cause |-> r.err]
                     ELSE [k |-> "return", v |-> r.v]

MustParseBytes(d) ==
  LET r == ParseBytes(d) IN
    IF r.err # NoErr THEN [k |-> "panic", cause |-> r.err]
                     ELSE [k |-> "return", v |-> r.v]

OneShotResult(f, d) ==
  CASE f = "Parse" -> [k |-> "result", v |-> Parse(d).v, err |-> Parse(d).err]
    [] f = "ParseBytes" -> [k |-> "result", v |-> ParseBytes(d).v, err |-> ParseBytes(d).err]
    [] f = "MustParse" -> MustParse(d)
    [] f = "MustParseBytes" -> MustParseBytes(d)

\* PrivateParserIdle with the one-shot functions taking their parser from
\* handyPool and putting it back (p := handyPool.Get(); handyPool.Put(p)).
PrivateParserPooled(q) == idle \cup {q}

\* The pool's idle set after a one-shot function has used its parser q:
\* `var p Parser` is a parser of the function's own, handyPool never sees it.
PrivateParserIdle(q) == idle

\* a caller runs one of the one-shot parse functions: it declares a parser
\* (var p Parser), parses into it and returns what the parser returns
OneShot(c) ==
  /\ pc[c] = "idle"
  /\ ncalls < MaxCalls
  /\ \E f \in OneShots, d \in AllData :
       /\ held' = [held EXCEPT ![c] = [acc |-> f, data |-> d, keys |-> <<>>,
                                       val |-> OneShotResult(f, d),
                                       at |-> OneShotResult(f, d)]]
       /\ buf' = buf @@ ((made + 1) :> Refill(<<>>, Text(d)))
       /\ tree' = tree @@ ((made + 1) :> EngineParse(d).v)
  /\ made' = made + 1
  /\ priv' = priv \cup {made + 1}
  /\ docp' = [docp EXCEPT ![c] = made + 1]
  /\ idle' = PrivateParserIdle(made + 1)
  /\ ncalls' = ncalls + 1
  /\ UNCHANGED <<pc, cur, p, res, gets, puts, peak>>

InitPool ==
  /\ idle = {}
  /\ made = 0
  /\ buf = <<>>
  /\ tree = <<>>
  /\ cur = [c \in Callers |-> None]
  /\ p = [c \in Callers |-> 0]
  /\ res = [c \in Callers |-> None]
  /\ gets = [c \in Callers |-> <<>>]
  /\ puts = [c \in Callers |-> <<>>]
  /\ held = [c \in Callers |-> None]
  /\ ncalls = 0
  /\ priv = {}
  /\ docp = [c \in Callers |-> 0]
  /\ peak = 0

\* NumCallers goroutines calling the accessors concurrently.
Init == InitPool /\ pc = [c \in Callers |-> "idle"]

Next ==
  \E c \in Callers :
    \/ Call(c)
    \/ PoolGet(c)
    \/ ParseBytesStep(c)
    \/ CoerceStep(c)
    \/ CopyStep(c)
    \/ PoolPut(c)
    \/ Return(c)

Spec == Init /\ [][Next]_vars

\* The statements of the accessor call caller c has in flight.
Step(c) ==
  \/ PoolGet(c)
  \/ ParseBytesStep(c)
  \/ CoerceStep(c)
  \/ CopyStep(c)
  \/ PoolPut(c)
  \/ Return(c)

\* The calls of the fairly scheduled callers: one accessor that copies and
\* one that does not, on a well-formed and on a malformed text, which takes
\* a call through each of the three statement orders.
CallFair(c) ==
  \/ Start(c, {"GetString"}, {<<"d1", <<"h">>>>, <<"bad", <<"h">>>>})
  \/ Start(c, {"GetHex"}, {<<"d1", <<"h">>>>})

NextFair == \E c \in Callers : CallFair(c) \/ Step(c)

\* The concurrent callers, with caller 1 scheduled fairly: its goroutine
\* keeps running the call it is in.  Nothing is assumed of the other
\* callers, which may stop anywhere.
SpecFair == Init /\ [][NextFair]_vars /\ WF_vars(Step(1))

\* One goroutine calling the accessors and the one-shot functions one after
\* another, on every input.
InitSeq == InitPool /\ pc = [c \in Callers |-> IF c = 1 THEN "idle" ELSE "off"]

NextSeq ==
  \E c \in Callers :
    \/ CallAny(c)
    \/ OneShot(c)
    \/ PoolGet(c)
    \/ ParseBytesStep(c)
    \/ CoerceStep(c)
    \/ CopyStep(c)
    \/ PoolPut(c)
    \/ Return(c)

SpecSeq == InitSeq /\ [][NextSeq]_vars

(* ------------------------------ claims --------------------------------- *)
Done(c) == held[c] # None
DoneAccessor(c) == Done(c) /\ held[c].acc \in Accessors

\* A call uses its parser from the statement after Get up to its Put.
InUse(c) == pc[c] \in {"parse", "coerce", "copy", "put", "puterr"}

\* C1: every accessor call performs exactly one handyPool.Get and exactly one
\* handyPool.Put of the parser it got, on every exit path, and the Put comes
\* before the return: before Get nothing is taken or given back, between Get
\* and Put one parser is taken and none given back, and at the return (and
\* after it) the one parser taken is the one parser given back.
C1_OneGetOnePut ==
  \A c \in Callers :
    /\ pc[c] = "get" => gets[c] = <<>> /\ puts[c] = <<>>
    /\ InUse(c) => gets[c] = <<p[c]>> /\ puts[c] = <<>>
    /\ pc[c] \in {"ret", "reterr"} => gets[c] = <<p[c]>> /\ puts[c] = <<p[c]>>
    /\ pc[c] = "idle" /\ DoneAccessor(c) => Len(gets[c]) = 1 /\ puts[c] = gets[c]

\* A call is about to return from its error branch, having put its parser,
\* after an earlier call of the same caller returned from a successful parse.
C1_Witness ==
  \E c \in Callers :
    /\ pc[c] = "reterr" /\ puts[c] = <<p[c]>>
    /\ DoneAccessor(c) /\ ~Malformed(held[c].data)

\* C3: each parser is held by at most one call in flight: two calls between
\* their Get and their Put never hold the same parser, and a parser a call
\* is using is not idle in the pool (so Get cannot hand it out again).
C3_ExclusiveParser ==
  /\ \A c1, c2 \in Callers :
       c1 # c2 /\ InUse(c1) /\ InUse(c2) => p[c1] # p[c2]
  /\ \A c \in Callers : InUse(c) => p[c] \notin idle

\* Two calls are in flight at once, each past its ParseBytes and before its
\* Put.
C3_Witness ==
  \E c1, c2 \in Callers :
    /\ c1 # c2 /\ InUse(c1) /\ InUse(c2)
    /\ pc[c1] = "coerce" /\ pc[c2] = "copy"

\* The node a path resolves to in a well-formed text.
NodeAt(d, ks) == Get(EngineParse(d).v, ks)

\* The default the interface declares for each accessor.
DeclaredDefault(a) ==
  CASE a \in {"GetString", "GetHex"} -> Str(<<>>)
    [] a = "GetBytes" -> NilBytes
    [] a = "GetInt" -> IntVal(0)
    [] a = "GetBigint" -> BigVal(0)
    [] a = "GetFloat64" -> FloatVal(0)
    [] a \in {"GetBool", "Exists"} -> BoolVal(FALSE)

\* The node types each accessor can coerce.
Compatible(a, d, ks) ==
  LET n == NodeAt(d, ks) IN
    CASE a \in {"GetString", "GetBytes"} -> n.t = "string"
      [] a \in {"GetInt", "GetBigint", "GetFloat64"} -> n.t = "number"
      [] a = "GetHex" -> n.t = "string" /\ IsHexText(Bytes(Text(d), n.off, n.len))
      [] a = "GetBool" -> n.t = "true"
      [] a = "Exists" -> n # Absent

\* The value of the node a path resolves to, read from the text itself.
CoercedValue(a, d, ks) ==
  LET n == NodeAt(d, ks) IN
    CASE a \in {"GetString", "GetHex"} -> Str(Bytes(Text(d), n.off, n.len))
      [] a = "GetBytes" -> ByteVal(Bytes(Text(d), n.off, n.len))
      [] a = "GetInt" -> IntVal(ParseDec(Bytes(Text(d), n.off, n.len)))
      [] a = "GetBigint" -> BigVal(ParseDec(Bytes(Text(d), n.off, n.len)))
      [] a = "GetFloat64" -> FloatVal(ParseDec(Bytes(Text(d), n.off, n.len)))
      [] a \in {"GetBool", "Exists"} -> BoolVal(TRUE)

\* What the accessor returns when it runs alone, on a parser of its own.
RunAlone(a, d, ks) ==
  LET r == EngineParse(d)
      bs == <<Refill(<<>>, Text(d))>>
  IN IF NextStep(a, "parse", r.err # NoErr) = "puterr"
       THEN ErrDefault(a)
       ELSE LET x == Coerce(a, r.v, bs[1], 1, ks) IN
              ObserveIn(bs, IF NextStep(a, "coerce", FALSE) = "copy"
                              THEN CopyOut(a, x, bs) ELSE x)

\* C2: a value an accessor has returned keeps the contents it had when it
\* was returned, whatever calls run later.
C2_ReturnedValueStable ==
  \A c \in Callers : Done(c) => Observe(held[c].val) = held[c].at

\* C4: under every interleaving, each accessor call returns what it returns
\* when it runs alone.
C4_SameAsSequential ==
  \A c \in Callers :
    DoneAccessor(c) => held[c].at = RunAlone(held[c].acc, held[c].data, held[c].keys)

\* C5: on a malformed text every accessor returns its declared default (as
\* written out here), and Parse and ParseBytes return a parse error and no
\* document.
C5_MalformedGivesDefault ==
  \A c \in Callers :
    Done(c) /\ Malformed(held[c].data) =>
      LET a == held[c].acc
          x == held[c].val
      IN /\ a \in {"GetString", "GetHex"} => x = [k |-> "string", s |-> <<>>]
         /\ a = "GetBytes" => x = [k |-> "nilbytes"]
         /\ a = "GetInt" => x = [k |-> "int", n |-> 0]
         /\ a = "GetBigint" => x = [k |-> "big", n |-> 0]
         /\ a = "GetFloat64" => x = [k |-> "float", n |-> 0]
         /\ a \in {"GetBool", "Exists"} => x = [k |-> "bool", b |-> FALSE]
         /\ a \in {"Parse", "ParseBytes"} =>
              x.k = "result" /\ x.err # NoErr /\ x.v = NilDoc

\* GetBytes has returned for the malformed text "not json".
C5_Witness ==
  \E c \in Callers :
    Done(c) /\ held[c].acc = "GetBytes" /\ held[c].data = "bad"
      /\ held[c].val = NilBytes

\* The three ways a lookup fails.
PathAbsent(d, ks) == ~Malformed(d) /\ NodeAt(d, ks) = Absent
TypeMismatch(a, d, ks) ==
  ~Malformed(d) /\ NodeAt(d, ks) # Absent /\ ~Compatible(a, d, ks)
LookupFails(a, d, ks) ==
  Malformed(d) \/ PathAbsent(d, ks) \/ TypeMismatch(a, d, ks)

\* C6: GetBytes returns nil exactly when the lookup fails; a string that is
\* present but empty comes back as an empty buffer that is not nil.
C6_NilExactlyOnFailure ==
  \A c \in Callers :
    Done(c) /\ held[c].acc = "GetBytes" =>
      (held[c].val = NilBytes <=> LookupFails("GetBytes", held[c].data, held[c].keys))

\* C7: a malformed text, a path that resolves to no node and a node of an
\* incompatible type all give the accessor's one declared default; Exists is
\* false whenever the path resolves to no node.
C7_FailuresIndistinguishable ==
  \A c \in Callers :
    DoneAccessor(c) /\ LookupFails(held[c].acc, held[c].data, held[c].keys) =>
      /\ held[c].val = DeclaredDefault(held[c].acc)
      /\ held[c].at = DeclaredDefault(held[c].acc)

\* GetBigint has returned zero for a path that leads to a string.
C7_Witness ==
  \E c \in Callers :
    DoneAccessor(c) /\ held[c].acc = "GetBigint"
      /\ TypeMismatch("GetBigint", held[c].data, held[c].keys)
      /\ held[c].val = BigVal(0)

\* C8: MustParse panics exactly when Parse returns an error, with that error
\* as the panic's value, and otherwise returns Parse's document; likewise
\* MustParseBytes and ParseBytes; Parse and ParseBytes return the error with
\* no document in its place.
C8_MustPanicsIffParseFails ==
  \A c \in Callers :
    Done(c) =>
      LET d == held[c].data
          x == held[c].val
      IN /\ held[c].acc = "MustParse" =>
              IF Parse(d).err # NoErr
                THEN x.k = "panic" /\ x.cause = Parse(d).err
                ELSE x.k = "return" /\ x.v = Parse(d).v
         /\ held[c].acc = "MustParseBytes" =>
              IF ParseBytes(d).err # NoErr
                THEN x.k = "panic" /\ x.cause = ParseBytes(d).err
                ELSE x.k = "return" /\ x.v = ParseBytes(d).v
         /\ held[c].acc \in {"Parse", "ParseBytes"} =>
              (x.err # NoErr <=> Malformed(d)) /\ (x.v = NilDoc <=> Malformed(d))

\* MustParse has panicked on "{}x" with the parser's error.
C8_Witness ==
  \E c \in Callers :
    Done(c) /\ held[c].acc = "MustParse" /\ held[c].data = "bad2"
      /\ held[c].val = [k |-> "panic", cause |-> "unexpected tail"]

\* nil and an empty buffer have the same contents.
Content(x) == IF x = NilBytes THEN ByteVal(<<>>) ELSE x

\* C9: for a well-formed text and a path to a node of a compatible type, what
\* the accessor returned is the node's value, whatever calls came before it
\* and whatever calls come after it.
C9_ResultIndependentOfHistory ==
  \A c \in Callers :
    DoneAccessor(c) /\ ~Malformed(held[c].data)
      /\ Compatible(held[c].acc, held[c].data, held[c].keys) =>
        Content(Observe(held[c].val))
          = CoercedValue(held[c].acc, held[c].data, held[c].keys)

\* string(b) of what GetBytes returned.
BytesToString(x) == IF x = NilBytes THEN Str(<<>>) ELSE Str(x.s)

SameInput(c) ==
  /\ Done(c)
  /\ cur[c].data = held[c].data /\ cur[c].keys = held[c].keys
  /\ ~Malformed(cur[c].data) /\ NodeAt(cur[c].data, cur[c].keys).t = "string"

\* C10: where the path resolves to a string, the bytes GetBytes returns,
\* converted to a string, are the string GetString returns (the two calls
\* made one after the other, in either order).
C10_BytesRoundTrip ==
  \A c \in Callers :
    pc[c] = "ret" /\ SameInput(c) =>
      /\ cur[c].acc = "GetString" /\ held[c].acc = "GetBytes" =>
           BytesToString(held[c].at) = res[c]
      /\ cur[c].acc = "GetBytes" /\ held[c].acc = "GetString" =>
           BytesToString(res[c]) = held[c].at

\* GetBytes returned the bytes of "hi" and GetString is about to return for
\* the same text and path.
C10_Witness ==
  \E c \in Callers :
    /\ pc[c] = "ret" /\ SameInput(c)
    /\ cur[c].acc = "GetString" /\ held[c].acc = "GetBytes"
    /\ held[c].at = ByteVal(<<"h", "i">>)

\* The accessors that return text or bytes.
TextAccessors == {"GetString", "GetBytes", "GetHex"}

\* C11: in GetString, GetBytes and GetHex the coerced bytes are copied out of
\* the parser's buffer before handyPool.Put(p): at the Put, and from then on,
\* the value the call is about to return is no view of a parser's buffer, and
\* neither is the value it has returned.
C11_CopyBeforePut ==
  \A c \in Callers :
    /\ pc[c] \in {"put", "ret"} /\ cur[c].acc \in TextAccessors => res[c].k # "view"
    /\ Done(c) /\ held[c].acc \in TextAccessors => held[c].val.k # "view"

\* The document a one-shot call returned, if it returned one.
HeldDoc(c) ==
  IF Done(c) /\ held[c].acc \in OneShots /\ ~Malformed(held[c].data)
    THEN held[c].val.v ELSE NilDoc

\* No private parser is idle in the pool or in the hands of an accessor
\* call, and every document a one-shot call returned is what its parser
\* still holds.
PrivateParsersUntouched ==
  /\ \A q \in priv : q \notin idle /\ \A c \in Callers : p[c] # q
  /\ \A c \in Callers :
       HeldDoc(c) # NilDoc =>
         buf[docp[c]] = HeldDoc(c).b /\ tree[docp[c]] = HeldDoc(c).v

\* A step of a one-shot function: a private parser appears.
OneShotStep == priv' # priv

\* C12: Parse, ParseBytes, MustParse and MustParseBytes never touch the
\* pool: their step leaves the idle set as it is, their parser is never idle
\* in the pool nor handed to an accessor, and the document they returned is
\* never altered by a later accessor call or one-shot parse.
C12_OneShotsSkipPool ==
  /\ [](PrivateParsersUntouched)
  /\ [][OneShotStep => idle' = idle]_vars

\* A document returned by Parse is held while a later accessor call, on
\* another text, has parsed and is about to put its parser back.
C12_Witness ==
  \E c \in Callers :
    /\ HeldDoc(c) # NilDoc /\ held[c].acc = "Parse" /\ held[c].data = "d1"
    /\ pc[c] = "put" /\ cur[c].data = "d2"

\* The call in flight has the text and path of the caller's last accessor call.
SameInputAsHeld(c) ==
  DoneAccessor(c) /\ cur[c].data = held[c].data /\ cur[c].keys = held[c].keys

\* C13: Exists is true exactly when the text is well-formed and the path
\* resolves to a node, of whatever type (a null too); where a typed accessor
\* has returned its default for a node of a type it cannot coerce, Exists on
\* the same text and path returns true.
C13_ExistsIffResolves ==
  \A c \in Callers :
    /\ Done(c) /\ held[c].acc = "Exists" =>
         /\ held[c].val = BoolVal(~Malformed(held[c].data)
                                   /\ NodeAt(held[c].data, held[c].keys) # Absent)
         /\ held[c].data = "d3" /\ held[c].keys = <<"n">> => held[c].val = BoolVal(TRUE)
    /\ pc[c] = "ret" /\ cur[c].acc = "Exists" /\ SameInputAsHeld(c)
         /\ TypeMismatch(held[c].acc, held[c].data, held[c].keys) =>
           res[c] = BoolVal(TRUE) /\ held[c].val = DeclaredDefault(held[c].acc)

\* GetInt returned 0 for the path to the null of d3 and Exists is about to
\* return true for it.
C13_Witness ==
  \E c \in Callers :
    /\ pc[c] = "ret" /\ cur[c].acc = "Exists" /\ SameInputAsHeld(c)
    /\ held[c].acc = "GetInt" /\ held[c].data = "d3" /\ held[c].keys = <<"n">>
    /\ res[c] = BoolVal(TRUE)

\* The inputs whose path resolves to a node, listed by hand: on d1 the
\* root, the keys of the root, "b" inside "a" and index 1 of "arr" (not the
\* missing key "x" of "a", index 2 of the two-element "arr", nor "zz"); on d2
\* "h" and "a"; on d3 the root, the null "n" and the key "1" of the object
\* (nothing below the null or the number).
ResolvingInputs ==
  { <<"d1", <<>>>>, <<"d1", <<"h">>>>, <<"d1", <<"e">>>>, <<"d1", <<"s">>>>,
    <<"d1", <<"a">>>>, <<"d1", <<"a", "b">>>>, <<"d1", <<"arr", "1">>>>,
    <<"d1", <<"t">>>>, <<"d2", <<"h">>>>, <<"d2", <<"a">>>>,
    <<"d3", <<>>>>, <<"d3", <<"n">>>>, <<"d3", <<"1">>>> }

\* C14: paths are resolved segment by segment from the root; a segment of
\* decimal digits is an index into an array and a literal key of an object;
\* a missing key, an index out of range and a segment under a node that is
\* no container give absent, never an error; the empty path is the root, so
\* Exists with no keys is true for every well-formed text.
C14_PathResolution ==
  \A c \in Callers :
    Done(c) /\ ~Malformed(held[c].data) =>
      LET in == <<held[c].data, held[c].keys>> IN
        /\ held[c].acc = "Exists" =>
             /\ held[c].val = BoolVal(in \in ResolvingInputs)
             /\ held[c].keys = <<>> => held[c].val = BoolVal(TRUE)
        /\ held[c].acc = "GetInt" =>
             /\ in = <<"d1", <<"arr", "1">>>> => held[c].val = IntVal(20)
             /\ in = <<"d3", <<"1">>>> => held[c].val = IntVal(5)
             /\ in = <<"d1", <<"a", "b">>>> => held[c].val = IntVal(42)
             /\ in \notin ResolvingInputs => held[c].val = IntVal(0)

\* GetInt has returned 5 for the key "1" of the object d3, after GetInt
\* returned 20 for index 1 of the array "arr" of d1.
C14_Witness ==
  \E c \in Callers :
    /\ pc[c] = "ret" /\ cur[c] = [acc |-> "GetInt", data |-> "d3", keys |-> <<"1">>]
    /\ res[c] = IntVal(5)
    /\ Done(c) /\ held[c].acc = "GetInt" /\ held[c].data = "d1"
    /\ held[c].keys = <<"arr", "1">> /\ held[c].val = IntVal(20)

\* The parsers handyPool has constructed.
Pooled == (1..made) \ priv

\* C15: handyPool.Get never fails (a call at its Get can always take its
\* step) and constructs a parser only when no parser is idle; so the parsers
\* the pool has constructed are never more than the most accessor calls that
\* were in flight at once (one parser when the calls follow one another).
C15_GetConstructsOnlyWhenEmpty ==
  /\ [](/\ \A c \in Callers : pc[c] = "get" => ENABLED PoolGet(c)
        /\ Cardinality(Pooled) <= peak)
  /\ [][Cardinality(Pooled)' > Cardinality(Pooled) => idle = {}]_vars

\* A call holds the one parser constructed so far, which the other caller's
\* finished call has used before it.
C15_Witness ==
  \E c1, c2 \in Callers :
    /\ c1 # c2 /\ InUse(c1) /\ p[c1] = 1 /\ made = 1
    /\ DoneAccessor(c2) /\ pc[c2] = "idle"

\* The calls that hold parser q: those between their Get and their Put of it.
Holders(q) == {c \in Callers : InUse(c) /\ p[c] = q}

\* C16: every parser the pool has constructed is in exactly one place, idle
\* in the pool or held by exactly one call in flight; the idle set holds
\* nothing but such parsers; and when no accessor call is in flight every
\* constructed parser is idle.
C16_ParserInOnePlace ==
  /\ \A q \in Pooled :
       (IF q \in idle THEN 1 ELSE 0) + Cardinality(Holders(q)) = 1
  /\ idle \subseteq Pooled
  /\ (\A c \in Callers : ~InFlight(c)) => idle = Pooled

\* Two parsers have been constructed; one is idle again, the other is still
\* held by a call.
C16_Witness ==
  /\ made = 2 /\ Cardinality(idle) = 1
  /\ \E c \in Callers : InUse(c) /\ p[c] \notin idle

\* C17: an accessor call of a fairly scheduled caller terminates whatever the
\* other callers do: while it is in flight its next statement can always be
\* taken (it never waits for a parser), it reaches its return, and the
\* parser it holds gets back into the idle set before it returns.
C17_CallTerminates ==
  /\ [](InFlight(1) => ENABLED Step(1))
  /\ InFlight(1) ~> ~InFlight(1)
  /\ InUse(1) ~> (pc[1] \in {"ret", "reterr"} /\ p[1] \in idle)

\* Caller 1 is about to return from its call while another caller is in the
\* middle of its own, holding the other parser.
C17_Witness ==
  /\ pc[1] = "ret" /\ made = 2
  /\ \E c \in Callers : c # 1 /\ InUse(c) /\ p[c] \notin idle

====
